---- MODULE Spec2Model ----
(***************************************************************************)
(* A model of the onion-routing node of suhasks123/tor_project:            *)
(*   - router/onion_router.py : OnionRouter (listen, accept, circuit ids)  *)
(*   - crypto/core_crypto.py  : CoreCryptoRSA.hybrid_encrypt,              *)
(*                              hybrid_decrypt, kdf_tor                    *)
(* Three specifications share the module: SpecRouter (the acceptor),       *)
(* SpecCrypto (the hybrid codec) and SpecKdf (the key derivation).         *)
(***************************************************************************)
EXTENDS Integers, Sequences, FiniteSets, TLC

VARIABLES
    \* ---- OnionRouter (router/onion_router.py)
    phase,             \* "init" before listen() returned, then "listening"
    halted,            \* TRUE once exit(0) ran: the process is gone
    out,               \* what print() wrote, in order
    skt_conn,          \* self.skt.conn, the connection of the last accept (0: none)
    circuits_list,     \* self.circuits_list
    circuits_threads,  \* self.circuits_threads
    acc_pc,            \* where the accepting thread is: "idle" | "in_main"
    transport_log,     \* every server_listen/server_accept call and its result
    id_log,            \* every value get_rand_circ_id returned, in call order
    \* ---- CoreCryptoRSA.hybrid_encrypt / hybrid_decrypt
    c_pc,              \* "off" | "start" | "encrypted" | "done"
    message,           \* the payload handed to hybrid_encrypt
    pub,               \* the recipient's public key
    priv,              \* the private key handed to hybrid_decrypt
    enc_locals,        \* hybrid_encrypt's locals k, m1, m2 when it left
    enc_out,           \* what hybrid_encrypt returned (or the exception it raised)
    dec_out,           \* what hybrid_decrypt returned (or the exception it raised)
    \* ---- CoreCryptoRSA.kdf_tor
    k_pc,              \* "off" | "start" | "done"
    secret,            \* the shared secret handed to kdf_tor
    kdf_out            \* what kdf_tor returned (or the exception it raised)

routerVars == <<phase, halted, out, skt_conn, circuits_list, circuits_threads,
                acc_pc, transport_log, id_log>>
cryptoVars == <<c_pc, message, pub, priv, enc_locals, enc_out, dec_out>>
kdfVars == <<k_pc, secret, kdf_out>>
vars == <<routerVars, cryptoVars, kdfVars>>

\* ------------------------------------------------------------------ bounds
\* Circuits one node accepts before the model stops accepting.
MaxCircuits == 3
\* Distinct peers whose connections the transport hands to accept().
MaxPeers == 3

Last(s) == s[Len(s)]

(***************************************************************************)
(*                      OnionRouter: the acceptor                          *)
(***************************************************************************)

\* What Skt.server_listen / Skt.server_accept may return: 0 is success.
TransportResults == {0, 1, -1}

Peers == 1..MaxPeers

\* OnionRouter.get_rand_circ_id: the body is `return 1`.
get_rand_circ_id == 1

\* `if l != 0:` in listen
listen_failed(l) == l # 0

\* `if a != 0:` in accept, changed to a sign test
accept_failed_sign(a) == a < 0

\* `if a != 0:` in accept
accept_failed(a) == a # 0

\* Circuit(cktid, self.node, self.skt.conn): a fresh circuit, its worker body not
\* yet entered.
Circuit(cktid, conn) ==
    [circuit_id |-> cktid, conn |-> conn, state |-> "NEW", main_ran_in |-> "none"]

\* The lifecycle a circuit's main() walks through, one step at a time.
CircuitNextState(s) ==
    CASE s = "AWAITING_HANDSHAKE" -> {"KEYED", "CLOSED"}
      [] s = "KEYED" -> {"RELAYING", "CLOSED"}
      [] s = "RELAYING" -> {"CLOSED"}
      [] OTHER -> {}

\* The return value of Circuit.main(): a routine with no result returns None.
MainReturnValue == [kind |-> "NoneType", self |-> 0]

\* The bound method ckt.main of the i-th circuit, as a thread target.
BoundMain(i) == [kind |-> "bound_method", self |-> i]

\* threading.Thread(target=t, args=())
Thread(t) == [target |-> t, started |-> FALSE]

InitRouter ==
    /\ phase = "init"
    /\ halted = FALSE
    /\ out = <<>>
    /\ skt_conn = 0
    /\ circuits_list = <<>>
    /\ circuits_threads = <<>>
    /\ acc_pc = "idle"
    /\ transport_log = <<>>
    /\ id_log = <<>>

\* OnionRouter.listen
listen ==
    /\ ~halted
    /\ phase = "init"
    /\ \E l \in TransportResults :
        /\ transport_log' = Append(transport_log, [op |-> "listen", result |-> l])
        /\ IF listen_failed(l)
             THEN /\ out' = Append(out, "Error listening")
                  /\ halted' = TRUE
                  /\ phase' = phase
             ELSE /\ out' = out
                  /\ halted' = halted
                  /\ phase' = "listening"
    /\ UNCHANGED <<skt_conn, circuits_list, circuits_threads, acc_pc, id_log>>
    /\ UNCHANGED <<cryptoVars, kdfVars>>

\* OnionRouter.accept, from server_accept() up to the point where line 34
\* evaluates the argument expression ckt.main() in the accepting thread.
accept ==
    /\ ~halted
    /\ phase = "listening"
    /\ acc_pc = "idle"
    /\ Len(circuits_list) < MaxCircuits
    /\ \E a \in TransportResults, c \in Peers :
        /\ transport_log' = Append(transport_log, [op |-> "accept", result |-> a])
        /\ IF accept_failed(a)
             THEN /\ out' = Append(out, "Error accepting connection")
                  /\ halted' = TRUE
                  /\ UNCHANGED <<skt_conn, circuits_list, acc_pc, id_log>>
             ELSE LET cktid == get_rand_circ_id
                      ckt == Circuit(cktid, c)
                  IN /\ skt_conn' = c
                     /\ id_log' = Append(id_log, cktid)
                     /\ circuits_list' = Append(circuits_list,
                            [ckt EXCEPT !.state = "AWAITING_HANDSHAKE",
                                        !.main_ran_in = "acceptor"])
                     /\ acc_pc' = "in_main"
                     /\ UNCHANGED <<out, halted>>
    /\ UNCHANGED <<phase, circuits_threads>>
    /\ UNCHANGED <<cryptoVars, kdfVars>>

\* One step of ckt.main(), executed by the thread that called it.
Circuit_main_step ==
    /\ ~halted
    /\ acc_pc = "in_main"
    /\ LET i == Len(circuits_list)
       IN \E s \in CircuitNextState(circuits_list[i].state) :
            circuits_list' = [circuits_list EXCEPT ![i].state = s]
    /\ UNCHANGED <<phase, halted, out, skt_conn, circuits_threads, acc_pc,
                   transport_log, id_log>>
    /\ UNCHANGED <<cryptoVars, kdfVars>>

\* OnionRouter.accept, after ckt.main() returned: the Thread is built with the
\* returned value as its target, appended and started; accept returns -1.
accept_spawn ==
    /\ ~halted
    /\ acc_pc = "in_main"
    /\ circuits_list[Len(circuits_list)].state = "CLOSED"
    /\ LET circuit_th == Thread(MainReturnValue)
       IN circuits_threads' = Append(circuits_threads,
                                     [circuit_th EXCEPT !.started = TRUE])
    /\ acc_pc' = "idle"
    /\ UNCHANGED <<phase, halted, out, skt_conn, circuits_list, transport_log, id_log>>
    /\ UNCHANGED <<cryptoVars, kdfVars>>

\* A caller (a test, another component) invoking the public method
\* OnionRouter.get_rand_circ_id directly; no circuit is created or closed.
call_get_rand_circ_id ==
    /\ ~halted
    /\ Len(id_log) < MaxCircuits
    /\ id_log' = Append(id_log, get_rand_circ_id)
    /\ UNCHANGED <<phase, halted, out, skt_conn, circuits_list, circuits_threads,
                   acc_pc, transport_log>>
    /\ UNCHANGED <<cryptoVars, kdfVars>>

NextRouter ==
    \/ listen
    \/ accept
    \/ Circuit_main_step
    \/ accept_spawn
    \/ call_get_rand_circ_id

\* ---------------------------------------------------------- router claims

\* C1: the ids get_rand_circ_id returns are pairwise distinct, whether the calls
\* come from accept or directly, as long as no circuit is closed in between.
C1_AllocatedIdsDistinct ==
    \A i, j \in DOMAIN id_log : i # j => id_log[i] # id_log[j]

\* C2: accept never executes the worker body Circuit.main in the accepting
\* thread and never waits inside it, so the acceptor stays free for the next
\* connection whatever the first worker does.
C2_AcceptorNeverRunsWorkerBody ==
    /\ acc_pc # "in_main"
    /\ \A i \in DOMAIN circuits_list : circuits_list[i].main_ran_in # "acceptor"

\* C3: no two circuits in circuits_list carry the same circuit_id.
C3_UniqueCircuitIds ==
    \A i, j \in DOMAIN circuits_list :
        i # j => circuits_list[i].circuit_id # circuits_list[j].circuit_id

\* The step is a listen/accept call whose transport result is a failure.
TransportFailureStep ==
    /\ Len(transport_log') = Len(transport_log) + 1
    /\ Last(transport_log').result # 0

ErrorMessage(op) ==
    IF op = "listen" THEN "Error listening" ELSE "Error accepting connection"

\* C4: when listen or accept reports a non-zero result the node prints the error
\* and halts: that step allocates no id, appends no circuit, creates and starts
\* no worker, and once halted nothing (no further accept) happens any more.
C4_FailureHalts ==
    [][ /\ TransportFailureStep =>
            /\ halted'
            /\ out' = Append(out, ErrorMessage(Last(transport_log').op))
            /\ UNCHANGED <<id_log, circuits_list, circuits_threads, acc_pc, skt_conn>>
        /\ halted => UNCHANGED vars
      ]_vars

\* C4's case: an accept failed after a circuit had been accepted, and the node
\* is halted.
C4_Witness ==
    /\ halted
    /\ Len(circuits_list) >= 1
    /\ Len(transport_log) >= 3
    /\ Last(transport_log).op = "accept"
    /\ Last(transport_log).result # 0
    /\ Last(out) = "Error accepting connection"

\* C5: once accept has returned, started workers and circuits match one to one,
\* and the i-th worker's entry point is the i-th circuit's main routine itself.
C5_OneStartedWorkerPerCircuit ==
    acc_pc = "idle" =>
        /\ Cardinality({i \in DOMAIN circuits_threads : circuits_threads[i].started})
              = Len(circuits_list)
        /\ \A i \in DOMAIN circuits_list :
              /\ i \in DOMAIN circuits_threads
              /\ circuits_threads[i].target = BoundMain(i)


(***************************************************************************)
(*                CoreCryptoRSA: the hybrid encryption codec               *)
(***************************************************************************)

\* CryptoConstants
KEY_LEN == 16
PK_ENC_LEN == 128
PK_PAD_LEN == 42
HASH_LEN == 20
\* CoreCryptoRSA.RSA_KEY_SIZE, in bits
RSA_KEY_SIZE == 1024
\* Digest size, in bytes, of the hashes.SHA256() handed to padding.OAEP
OAEP_HASH_LEN == 32

\* ------------------------------------------------------------------ bounds
\* Longest payload handed to hybrid_encrypt.
MaxMsgLen == 90
\* Longest shared secret handed to kdf_tor.
MaxSecretLen == 4

Min(a, b) == IF a < b THEN a ELSE b

\* ---- Python values.  t is the type; v the bytes of a bytes object or the code
\* points of a str; e the exception's class when t = "exc"; key the id of the
\* RSA key an OAEP ciphertext was made for.
PyVal(t, v) == [t |-> t, v |-> v, e |-> "", key |-> 0]
Bytes(v) == PyVal("bytes", v)
Str(v) == PyVal("str", v)
None == PyVal("None", <<>>)
Exc(name) == [t |-> "exc", v |-> <<>>, e |-> name, key |-> 0]
IsExc(x) == x.t = "exc"

\* An expression whose operand raised raises the same exception: every
\* operation below hands an exception operand on unchanged.

\* The first exception among the values of statements run in order; None when
\* none of them raised.
FirstExc(stmts) ==
    LET raised == {i \in DOMAIN stmts : IsExc(stmts[i])}
    IN IF raised = {} THEN None
       ELSE stmts[CHOOSE i \in raised : \A j \in raised : i <= j]

\* s[a:b] and s[a:] on a sequence (0-based, clamped to the length as Python does)
Slice(s, a, b) == SubSeq(s, Min(a, Len(s)) + 1, Min(b, Len(s)))
SliceFrom(s, a) == SubSeq(s, Min(a, Len(s)) + 1, Len(s))

\* x[a:b], x[a:] on a bytes or str object: the type is kept
py_slice(x, a, b) == IF IsExc(x) THEN x ELSE PyVal(x.t, Slice(x.v, a, b))
py_slice_from(x, a) == IF IsExc(x) THEN x ELSE PyVal(x.t, SliceFrom(x.v, a))

\* a + b: str + str and bytes + bytes concatenate, anything else is a TypeError
py_add(a, b) ==
    IF IsExc(a) THEN a
    ELSE IF IsExc(b) THEN b
    ELSE IF a.t = b.t /\ a.t \in {"str", "bytes"} THEN PyVal(a.t, a.v \o b.v)
    ELSE Exc("TypeError")

\* bytes(x) with one argument: a str without an encoding is a TypeError
py_bytes(x) ==
    CASE IsExc(x) -> x
      [] x.t = "bytes" -> x
      [] x.t = "bytearray" -> Bytes(x.v)
      [] OTHER -> Exc("TypeError")

IsCont(b) == 128 <= b /\ b <= 191

\* The length of the UTF-8 sequence a lead byte b announces; 0 for a byte that
\* cannot lead one.
Utf8Width(b) ==
    IF b < 128 THEN 1
    ELSE IF 194 <= b /\ b <= 223 THEN 2
    ELSE IF 224 <= b /\ b <= 239 THEN 3
    ELSE IF 240 <= b /\ b <= 244 THEN 4
    ELSE 0

\* s starts with one well-formed UTF-8 sequence.
Utf8HeadOk(s) ==
    LET b == s[1]
        n == Utf8Width(b)
        lo2 == IF b = 224 THEN 160 ELSE IF b = 240 THEN 144 ELSE 128
        hi2 == IF b = 237 THEN 159 ELSE IF b = 244 THEN 143 ELSE 191
    IN /\ n > 0
       /\ Len(s) >= n
       /\ n >= 2 => (lo2 <= s[2] /\ s[2] <= hi2)
       /\ n >= 3 => IsCont(s[3])
       /\ n >= 4 => IsCont(s[4])

\* s is valid UTF-8.
RECURSIVE Utf8Valid(_)
Utf8Valid(s) ==
    IF s = <<>> THEN TRUE
    ELSE IF ~Utf8HeadOk(s) THEN FALSE
    ELSE Utf8Valid(SubSeq(s, Utf8Width(s[1]) + 1, Len(s)))

\* The code points of a valid UTF-8 byte sequence.
RECURSIVE Utf8CodePoints(_)
Utf8CodePoints(s) ==
    IF s = <<>> THEN <<>>
    ELSE LET b == s[1]
             n == Utf8Width(b)
             cp == CASE n = 1 -> b
                     [] n = 2 -> (b % 32) * 64 + (s[2] % 64)
                     [] n = 3 -> (b % 16) * 4096 + (s[2] % 64) * 64 + (s[3] % 64)
                     [] OTHER -> (b % 8) * 262144 + (s[2] % 64) * 4096
                                   + (s[3] % 64) * 64 + (s[4] % 64)
         IN <<cp>> \o Utf8CodePoints(SubSeq(s, n + 1, Len(s)))

\* The UTF-8 bytes of a sequence of code points below 2048.
RECURSIVE Utf8Encode(_)
Utf8Encode(cps) ==
    IF cps = <<>> THEN <<>>
    ELSE LET c == cps[1]
         IN (IF c < 128 THEN <<c>> ELSE <<192 + (c \div 64), 128 + (c % 64)>>)
              \o Utf8Encode(Tail(cps))

\* x.decode('utf-8') on bytes or a bytearray
py_decode_utf8(x) ==
    IF IsExc(x) THEN x
    ELSE IF x.t \notin {"bytes", "bytearray"} THEN Exc("AttributeError")
    ELSE IF ~Utf8Valid(x.v) THEN Exc("UnicodeDecodeError")
    ELSE Str(Utf8CodePoints(x.v))

\* bytes(x, encoding='utf-8'): only a str takes an encoding
py_bytes_utf8(x) ==
    IF IsExc(x) THEN x
    ELSE IF x.t = "str" THEN Bytes(Utf8Encode(x.v))
    ELSE Exc("TypeError")

\* x.encode() on a str
py_encode(x) ==
    IF IsExc(x) THEN x
    ELSE IF x.t = "str" THEN Bytes(Utf8Encode(x.v))
    ELSE Exc("AttributeError")

\* bytearray(n): n zero bytes
py_bytearray(n) == PyVal("bytearray", [i \in 1..n |-> 0])

\* ---- RSA keys: id names the pair, size is the modulus length in bytes.
\* generate_rsa_key_pair makes RSA_KEY_SIZE-bit pairs; the load_*_from_disc
\* routines return whatever the file holds (here a 2048-bit pair).
RsaKeys == { [id |-> 1, size |-> RSA_KEY_SIZE \div 8], [id |-> 2, size |-> 256] }

\* str(pk): the object's repr, a non-empty str
py_str_key(pk) == Str(<<60, 48 + pk.id, 62>>)

\* pk.encrypt(m, OAEP(MGF1(SHA256), SHA256, None)): bytes only, and at most
\* size - 2*hLen - 2 of them; the ciphertext is opaque and names its key.
rsa_encrypt(pk, m) ==
    IF IsExc(m) THEN m
    ELSE IF m.t # "bytes" THEN Exc("TypeError")
    ELSE IF Len(m.v) > pk.size - 2 * OAEP_HASH_LEN - 2 THEN Exc("ValueError")
    ELSE [t |-> "rsa_ct", v |-> m.v, e |-> "", key |-> pk.id]

\* sk.decrypt(c, OAEP(...)): the plaintext under the matching key only
rsa_decrypt(sk, c) ==
    IF IsExc(c) THEN c
    ELSE IF c.t = "rsa_ct" /\ c.key = sk.id THEN Bytes(c.v)
    ELSE Exc("ValueError")

\* The CTR keystream byte at position i (1-based) under key k and nonce n.
Sum(s) == LET RECURSIVE go(_)
              go(i) == IF i = 0 THEN 0 ELSE s[i] + go(i - 1)
          IN go(Len(s))
KeyStream(k, n, i) == (Sum(k) * 7 + Sum(n) * 13 + i * 31 + 11) % 256

\* Cipher(algorithms.AES(k), modes.CTR(nonce)): AES takes a 16/24/32-byte bytes
\* key, CTR a nonce of exactly one block (16 bytes).
aes_ctr_check(k, nonce) ==
    IF k.t # "bytes" \/ nonce.t \notin {"bytes", "bytearray"} THEN Exc("TypeError")
    ELSE IF Len(k.v) \notin {16, 24, 32} \/ Len(nonce.v) # 16 THEN Exc("ValueError")
    ELSE None

\* update(data) + finalize() of the cipher's encryptor (dir = 1) or decryptor
\* (dir = -1): the cipher is built first, then the data is run through it.
aes_ctr(k, nonce, data, dir) ==
    CASE IsExc(aes_ctr_check(k, nonce)) -> aes_ctr_check(k, nonce)
      [] IsExc(data) -> data
      [] data.t # "bytes" -> Exc("TypeError")
      [] OTHER -> Bytes([i \in 1..Len(data.v) |->
                           (data.v[i] + 256 + dir * KeyStream(k.v, nonce.v, i)) % 256])

\* ---- TapCHData (cell/control_cell.py): the Handshake Record, its positional
\* fields in the order both call sites and hybrid_decrypt's keys give them.
TapCHData(padding, symkey, gx1, gx2) ==
    [PADDING |-> padding, SYMKEY |-> symkey, GX1 |-> gx1, GX2 |-> gx2]

\* TapCHData.net_serialize / net_deserialize: the wire string and back
net_serialize(rec) == [json |-> rec]
net_deserialize(w) == w.json

\* TapCHData.serialize: the record as a dict
serialize(rec) == rec

\* The usable capacity PK_ENC_LEN - PK_PAD_LEN both branches compare against.
Cap == PK_ENC_LEN - PK_PAD_LEN

\* How a call of hybrid_encrypt ended: the returned wire string or the raised
\* exception, with the branch taken and the locals k, m1, m2 at that point.
Returned(w, path, k, m1, m2) ==
    [status |-> "ok", e |-> "", wire |-> w, path |-> path, k |-> k, m1 |-> m1, m2 |-> m2]
Raised(e, path, k, m1, m2) ==
    [status |-> "exc", e |-> e, wire |-> net_serialize(TapCHData(None, None, None, None)),
     path |-> path, k |-> k, m1 |-> m1, m2 |-> m2]

\* hybrid_encrypt, the `if` branch (lines 117-118)
encrypt_direct(msg, pk) ==
    LET p == rsa_encrypt(pk, msg)
    IN IF IsExc(p)
         THEN Raised(p.e, "direct", None, None, None)
         ELSE Returned(net_serialize(TapCHData(py_str_key(pk), None, p, None)),
                       "direct", None, None, None)

\* How the `else` branch ends once its statements ran: the first exception, if
\* any, is what the call raises; otherwise rec is serialized and returned.
encrypt_hybrid_end(exc, rec, k, m1, m2) ==
    IF IsExc(exc)
      THEN Raised(exc.e, "hybrid", k, m1, m2)
      ELSE Returned(net_serialize(rec), "hybrid", k, m1, m2)

\* hybrid_encrypt, the `else` branch (lines 120-132); rnd is what os.urandom gave
encrypt_hybrid(msg, pk, rnd) ==
    LET k == Bytes(rnd)
        m1 == py_slice(msg, 0, PK_ENC_LEN - PK_PAD_LEN - KEY_LEN)
        m2 == py_slice_from(msg, PK_ENC_LEN - PK_PAD_LEN - KEY_LEN)
        p1 == rsa_encrypt(pk, py_bytes(py_add(py_decode_utf8(k), m1)))
        nonce == py_bytearray(Len(m2.v))
        cipher == aes_ctr_check(k, nonce)
        p2 == aes_ctr(k, nonce, py_bytes_utf8(m2), 1)
        rec == TapCHData(py_decode_utf8(nonce), py_decode_utf8(k), p1, p2)
    IN encrypt_hybrid_end(FirstExc(<<p1, cipher, p2, rec.PADDING, rec.SYMKEY>>),
                          rec, k, m1, m2)

\* CoreCryptoRSA.hybrid_encrypt(message, pk)
hybrid_encrypt(msg, pk, rnd) ==
    IF Len(msg.v) <= PK_ENC_LEN - PK_PAD_LEN
      THEN encrypt_direct(msg, pk)
      ELSE encrypt_hybrid(msg, pk, rnd)

\* hybrid_decrypt, the `else` branch (lines 157-165) on the dict x
decrypt_hybrid(x, sk) ==
    py_add(py_slice_from(rsa_decrypt(sk, x.GX1), Len(x.SYMKEY.v)),
           aes_ctr(x.SYMKEY, x.PADDING, x.GX2, -1))

\* CoreCryptoRSA.hybrid_decrypt(message, pk)
hybrid_decrypt(w, sk) ==
    IF serialize(net_deserialize(w)).SYMKEY = None
      THEN rsa_decrypt(sk, serialize(net_deserialize(w)).GX1)
      ELSE decrypt_hybrid(serialize(net_deserialize(w)), sk)

\* ---- inputs
\* The n bytes (or code points) of a payload, spread over 0..255 from a seed.
Payload(n, seed) == [i \in 1..n |-> (seed + 3 * i) % 256]

\* Payloads: the annotated type (str) and the type pk.encrypt takes (bytes).
Messages ==
    { PyVal(t, Payload(n, seed)) : t \in {"bytes", "str"}, n \in 1..MaxMsgLen,
                                    seed \in {65, 200} }

\* What os.urandom(KEY_LEN) may give: ASCII bytes, bytes that are not UTF-8, and
\* a valid multi-byte UTF-8 sequence.
KeyPool ==
    { [i \in 1..KEY_LEN |-> 65],
      [i \in 1..KEY_LEN |-> 255],
      [i \in 1..KEY_LEN |-> IF i % 2 = 1 THEN 195 ELSE 169] }

NoOutcome == [status |-> "none", e |-> "", wire |-> net_serialize(TapCHData(None, None, None, None))]
NoLocals == [path |-> "none", k |-> None, m1 |-> None, m2 |-> None]

InitCrypto ==
    /\ c_pc = "start"
    /\ message \in Messages
    /\ pub \in RsaKeys
    /\ priv \in RsaKeys
    /\ enc_locals = NoLocals
    /\ enc_out = NoOutcome
    /\ dec_out = None

\* hybrid_encrypt left with r: what it returned or raised, and its locals.
hybrid_encrypt_leaves(r) ==
    /\ enc_out' = [status |-> r.status, e |-> r.e, wire |-> r.wire]
    /\ enc_locals' = [path |-> r.path, k |-> r.k, m1 |-> r.m1, m2 |-> r.m2]

\* A call hybrid_encrypt(message, pub)
hybrid_encrypt_call ==
    /\ c_pc = "start"
    /\ \E rnd \in KeyPool : hybrid_encrypt_leaves(hybrid_encrypt(message, pub, rnd))
    /\ c_pc' = "encrypted"
    /\ UNCHANGED <<message, pub, priv, dec_out>>
    /\ UNCHANGED <<routerVars, kdfVars>>

\* A call hybrid_decrypt(enc_out, priv) on what hybrid_encrypt returned
hybrid_decrypt_call ==
    /\ c_pc = "encrypted"
    /\ enc_out.status = "ok"
    /\ dec_out' = hybrid_decrypt(enc_out.wire, priv)
    /\ c_pc' = "done"
    /\ UNCHANGED <<message, pub, priv, enc_locals, enc_out>>
    /\ UNCHANGED <<routerVars, kdfVars>>

NextCrypto ==
    \/ hybrid_encrypt_call
    \/ hybrid_decrypt_call

\* ----------------------------------------------------------- codec claims

\* The record hybrid_encrypt returned.
EncRecord == net_deserialize(enc_out.wire)

\* hybrid_decrypt(hybrid_encrypt(p, pub), priv) has been evaluated to its end:
\* either both calls returned or the first one raised.
RoundTripOver ==
    \/ c_pc = "done"
    \/ c_pc = "encrypted" /\ enc_out.status = "exc"

RoundTripOutcome == IF enc_out.status = "exc" THEN Exc(enc_out.e) ELSE dec_out

\* C6: for a non-empty byte payload of at most 10 * Cap bytes and a matching
\* keypair, decrypting what hybrid_encrypt produced gives the payload back, on
\* the direct and on the hybrid path.
C6_RoundTrip ==
    ( /\ RoundTripOver
      /\ pub.id = priv.id
      /\ message.t = "bytes"
      /\ 0 < Len(message.v) /\ Len(message.v) <= 10 * Cap )
    => RoundTripOutcome = message

\* C7: hybrid_encrypt produces a record for every byte payload, and the record
\* has symmetric_key present exactly when len(p) > Cap (absent at len(p) = Cap).
C7_HybridPathSelection ==
    (c_pc # "start" /\ message.t = "bytes") =>
        /\ enc_out.status = "ok"
        /\ (EncRecord.SYMKEY # None) <=> (Len(message.v) > Cap)

\* C8: in every record hybrid_encrypt produces, part_a is present and padding,
\* symmetric_key and part_b are all present or all absent.
C8_OptionalFieldsAgree ==
    (c_pc # "start" /\ enc_out.status = "ok") =>
        /\ EncRecord.GX1 # None
        /\ \/ EncRecord.PADDING # None /\ EncRecord.SYMKEY # None /\ EncRecord.GX2 # None
           \/ EncRecord.PADDING = None /\ EncRecord.SYMKEY = None /\ EncRecord.GX2 = None

\* C10: on the hybrid path k has KEY_LEN bytes, k and m1 together fill Cap,
\* m1 followed by m2 is the payload, m2 is not empty, and part_a of the record
\* produced is the public-key encryption of k followed by m1.
C10_HybridSplit ==
    (c_pc # "start" /\ message.t = "bytes" /\ Len(message.v) > Cap) =>
        /\ Len(enc_locals.k.v) = KEY_LEN
        /\ Len(enc_locals.k.v) + Len(enc_locals.m1.v) = Cap
        /\ enc_locals.m1.v \o enc_locals.m2.v = message.v
        /\ enc_locals.m2.v # <<>>
        /\ enc_out.status = "ok"
        /\ EncRecord.GX1.t = "rsa_ct"
        /\ EncRecord.GX1.v = enc_locals.k.v \o enc_locals.m1.v

(***************************************************************************)
(*                    CoreCryptoRSA.kdf_tor                                *)
(***************************************************************************)

\* The names core_crypto.py binds at module level: its imports and its classes.
ModuleGlobals ==
    {"os", "default_backend", "backend", "serialization", "rsa", "hashes", "HKDF",
     "Any", "json", "Cipher", "algorithms", "modes", "TapCHData", "padding",
     "CryptoConstants", "CoreCryptoRSA", "CoreCryptoDH", "CoreCryptoMisc"}

\* The names a statement of kdf_tor can resolve without qualification: its own
\* locals and the module's globals (a class body is not an enclosing scope).
KdfScope == {"message", "backend", "hkdf", "key", "kdf_tor_dict"} \cup ModuleGlobals

\* HKDF(SHA256, length, salt=None, info=None).derive(ikm): length bytes that
\* depend on nothing but ikm.
hkdf_derive(ikm, length) ==
    [i \in 1..length |-> (Sum(ikm) * 31 + Len(ikm) * 17 + i * 7) % 256]

\* How a call of kdf_tor ended: the dict returned, or the exception raised.
KdfReturned(kh, df, db, kf, kb) ==
    [status |-> "ok", e |-> "", KH |-> kh, Df |-> df, Db |-> db, Kf |-> kf, Kb |-> kb]
KdfRaised(e) ==
    [status |-> "exc", e |-> e, KH |-> <<>>, Df |-> <<>>, Db |-> <<>>, Kf |-> <<>>,
     Kb |-> <<>>]

\* CoreCryptoRSA.kdf_tor(message)
kdf_tor(msg) ==
    IF ~ {"KEY_LEN", "HASH_LEN"} \subseteq KdfScope THEN KdfRaised("NameError")
    ELSE LET ikm == py_encode(msg)
             key == hkdf_derive(ikm.v, KEY_LEN * 2 + HASH_LEN * 3)
         IN IF IsExc(ikm) THEN KdfRaised(ikm.e)
            ELSE KdfReturned(Slice(key, 0, HASH_LEN),
                             Slice(key, HASH_LEN, 2 * HASH_LEN),
                             Slice(key, 2 * HASH_LEN, 3 * HASH_LEN),
                             Slice(key, 3 * HASH_LEN, 3 * HASH_LEN + KEY_LEN),
                             Slice(key, 3 * HASH_LEN + KEY_LEN, 3 * HASH_LEN + 2 * KEY_LEN))

\* Shared secrets: strings over "g", "x", "y" (compute_dh_shared_key gives "gxy").
RECURSIVE SeqsUpTo(_, _)
SeqsUpTo(S, n) ==
    IF n = 0 THEN {<<>>}
    ELSE LET shorter == SeqsUpTo(S, n - 1)
         IN shorter \cup {Append(q, x) : q \in shorter, x \in S}

Secrets == {Str(q) : q \in SeqsUpTo({103, 120, 121}, MaxSecretLen)}

InitKdf ==
    /\ k_pc = "start"
    /\ secret \in Secrets
    /\ kdf_out = KdfRaised("")

\* A call kdf_tor(secret)
kdf_tor_call ==
    /\ k_pc = "start"
    /\ kdf_out' = kdf_tor(secret)
    /\ k_pc' = "done"
    /\ UNCHANGED secret
    /\ UNCHANGED <<routerVars, cryptoVars>>

NextKdf ==
    \/ kdf_tor_call

\* C9: kdf_tor returns five slices KH, Df, Db, Kf, Kb of lengths HASH_LEN,
\* HASH_LEN, HASH_LEN, KEY_LEN, KEY_LEN that, in this order, make up the whole
\* 2*KEY_LEN + 3*HASH_LEN bytes HKDF derives from the shared secret.
C9_KdfSlices ==
    k_pc = "done" =>
        /\ kdf_out.status = "ok"
        /\ Len(kdf_out.KH) = HASH_LEN
        /\ Len(kdf_out.Df) = HASH_LEN
        /\ Len(kdf_out.Db) = HASH_LEN
        /\ Len(kdf_out.Kf) = KEY_LEN
        /\ Len(kdf_out.Kb) = KEY_LEN
        /\ kdf_out.KH \o kdf_out.Df \o kdf_out.Db \o kdf_out.Kf \o kdf_out.Kb
             = hkdf_derive(py_encode(secret).v, 2 * KEY_LEN + 3 * HASH_LEN)

(***************************************************************************)
(*                          Specifications                                 *)
(***************************************************************************)

\* The variables of a part that is not running.
RouterOff ==
    /\ phase = "off"
    /\ halted = FALSE
    /\ out = <<>>
    /\ skt_conn = 0
    /\ circuits_list = <<>>
    /\ circuits_threads = <<>>
    /\ acc_pc = "off"
    /\ transport_log = <<>>
    /\ id_log = <<>>

CryptoOff ==
    /\ c_pc = "off"
    /\ message = None
    /\ pub = [id |-> 0, size |-> 0]
    /\ priv = [id |-> 0, size |-> 0]
    /\ enc_locals = NoLocals
    /\ enc_out = NoOutcome
    /\ dec_out = None

KdfOff ==
    /\ k_pc = "off"
    /\ secret = None
    /\ kdf_out = KdfRaised("")

\* The node after OnionRouter.__init__.
InitRouterOnly == InitRouter /\ CryptoOff /\ KdfOff
SpecRouter == InitRouterOnly /\ [][NextRouter]_vars

\* One hybrid_encrypt / hybrid_decrypt round trip on drawn inputs.
InitCryptoOnly == RouterOff /\ InitCrypto /\ KdfOff
SpecCrypto == InitCryptoOnly /\ [][NextCrypto]_vars

\* One kdf_tor call on a drawn shared secret.
InitKdfOnly == RouterOff /\ CryptoOff /\ InitKdf
SpecKdf == InitKdfOnly /\ [][NextKdf]_vars

====
